---- MODULE Spec2Model ----
(***************************************************************************)
(* Model of bin/CreateFlowtable.py: one run of the flowtable stage.  The   *)
(* script is a straight-line module body; every statement group that can   *)
(* end the run or change the metadata store is one action.                 *)
(***************************************************************************)
EXTENDS Integers, Sequences, FiniteSets, TLC

\* ---------------------------------------------------------------- bounds
MaxMissing == 1      \* required keys absent from the store at launch
MaxHistory == 1      \* processing-history items already in the store
MaxInvocations == 3  \* cap on the createflowpaths invocation counter
FracDigits == 2      \* decimal places kept by the fixed-point floats

\* ------------------------------------------------------------- constants
None == "None"
Unbound == "<unbound>"
NoResult == "<no result>"
Payload == "createflowpaths output"
ProjectDir == "proj"
NoExit == -1

StudyAreaRequired == <<"dem_res_x", "dem_res_y">>
RHESSysRequired ==
  <<"grass_dbase", "grass_location", "grass_mapset", "rhessys_dir",
    "cf_bin", "worldfile", "template">>
GrassRequired == <<"dem_rast", "slope_rast", "streams_rast", "zero_rast">>
GrassOptional == {"roads_rast", "roof_connectivity_rast", "impervious_rast"}
PostconditionKeys == {"surface_flowtable", "subsurface_flowtable"}

Range(s) == {s[i] : i \in 1..Len(s)}
UnconditionalKeys ==
  Range(StudyAreaRequired) \cup Range(RHESSysRequired) \cup Range(GrassRequired)

\* ------------------------------------------------ float(): str -> float
\* Floats are fixed-point integers scaled by 10^FracDigits.  The literal
\* grammar covered is digits[.digits] with at least one digit (signs,
\* exponents, inf and nan are not drawn as inputs); text outside it, such
\* as "abc", raises ValueError.
DigitChars == <<"0", "1", "2", "3", "4", "5", "6", "7", "8", "9">>
IsDigit(c) == \E i \in 1..10 : DigitChars[i] = c
DigitVal(c) == (CHOOSE i \in 1..10 : DigitChars[i] = c) - 1
AllDigits(s) == \A i \in 1..Len(s) : IsDigit(s[i])

RECURSIVE Pow10(_)
Pow10(n) == IF n = 0 THEN 1 ELSE 10 * Pow10(n - 1)

RECURSIVE DigitsValue(_)
DigitsValue(s) ==
  IF s = <<>> THEN 0
  ELSE 10 * DigitsValue(SubSeq(s, 1, Len(s) - 1)) + DigitVal(s[Len(s)])

DotPos(s) ==
  IF \E i \in 1..Len(s) : s[i] = "."
  THEN CHOOSE i \in 1..Len(s) : s[i] = "." /\ \A j \in 1..(i - 1) : s[j] # "."
  ELSE Len(s) + 1
IntPart(s) == SubSeq(s, 1, DotPos(s) - 1)
FracPart(s) == SubSeq(s, DotPos(s) + 1, Len(s))
IsFloatLiteral(s) ==
  /\ AllDigits(IntPart(s))
  /\ AllDigits(FracPart(s))
  /\ Len(IntPart(s)) + Len(FracPart(s)) > 0
FracScaled(f) ==
  IF Len(f) >= FracDigits
  THEN DigitsValue(SubSeq(f, 1, FracDigits))
  ELSE DigitsValue(f) * Pow10(FracDigits - Len(f))
ParseFloat(s) ==
  IF IsFloatLiteral(s)
  THEN [ok |-> TRUE,
        val |-> DigitsValue(IntPart(s)) * Pow10(FracDigits) + FracScaled(FracPart(s))]
  ELSE [ok |-> FALSE, val |-> 0]

\* --------------------------------------------------------------- inputs
ResValues ==
  { <<"1", "0">>, <<"1", "0", ".", "0">>, <<"1", "0", ".", "5">>,
    <<"a", "b", "c">> }
Bases == {"world", "ws"}
ArgsSet == [routeRoads : BOOLEAN, routeRoofs : BOOLEAN, force : BOOLEAN]

DefaultValue ==
  [k \in Range(RHESSysRequired) \cup Range(GrassRequired) \cup GrassOptional |->
     CASE k = "grass_dbase" -> "GRASSData"
       [] k = "grass_location" -> "default"
       [] k = "grass_mapset" -> "PERMANENT"
       [] k = "rhessys_dir" -> "rhessys"
       [] k = "cf_bin" -> "rhessys/bin/cf"
       [] k = "worldfile" -> "world"
       [] k = "template" -> "template"
       [] k = "dem_rast" -> "dem"
       [] k = "slope_rast" -> "slope"
       [] k = "streams_rast" -> "streams"
       [] k = "zero_rast" -> "zero"
       [] k = "roads_rast" -> "roads"
       [] k = "roof_connectivity_rast" -> "roof_connectivity"
       [] k = "impervious_rast" -> "impervious"]

RECURSIVE EarlierHistory(_)
EarlierHistory(n) ==
  IF n = 0 THEN <<>> ELSE Append(EarlierHistory(n - 1), "EarlierStage.py -p proj")

MakeStore(missing, opt, rx, ry, base, prior, h) ==
  [studyArea |->
     [k \in Range(StudyAreaRequired) \ missing |->
        IF k = "dem_res_x" THEN rx ELSE ry],
   grass |->
     [k \in (Range(GrassRequired) \ missing) \cup opt |-> DefaultValue[k]],
   rhessys |->
     [k \in (Range(RHESSysRequired) \ missing)
            \cup (IF prior THEN PostconditionKeys ELSE {}) |->
        IF k \in PostconditionKeys THEN "old.flow"
        ELSE IF k = "worldfile" THEN base ELSE DefaultValue[k]],
   history |-> EarlierHistory(h)]

\* ---------------------------------------------------------------- state
VARIABLES
  pc,                  \* position in the module body
  args,                \* parsed command-line flags
  store,               \* the project's metadata store
  store0,              \* the store as it was when the run was launched
  cmdline,             \* cmdline captured at the start of the run
  studyArea, grassMetadata, metadata,   \* sections read from the store
  demResX, demResY,
  grassDbase, grassConfig,
  cfPath, templatePath, flowTableNameBase, flowOutpath,
  roads, roofs, impervious, surfaceFlowtable, subsurfaceFlowtable,
  toolCalls,           \* the createflowpaths invocations made, in order
  result,              \* what read_command returned
  written,             \* RHESSys keys written by this run
  exitCode, exitMsg

vars ==
  <<pc, args, store, store0, cmdline, studyArea, grassMetadata, metadata,
    demResX, demResY, grassDbase, grassConfig,
    cfPath, templatePath, flowTableNameBase, flowOutpath,
    roads, roofs, impervious, surfaceFlowtable, subsurfaceFlowtable,
    toolCalls, result, written, exitCode, exitMsg>>

checkVars == <<studyArea, grassMetadata, metadata>>
resVars == <<demResX, demResY>>
pathVars ==
  <<grassDbase, grassConfig, cfPath, templatePath, flowTableNameBase,
    flowOutpath>>
inputVars == <<roads, roofs, impervious, surfaceFlowtable, subsurfaceFlowtable>>
exitVars == <<exitCode, exitMsg>>

EmptySection == [k \in {} |-> ""]

MissingSets ==
  {m \in SUBSET UnconditionalKeys : Cardinality(m) <= MaxMissing}

Init ==
  \E missing \in MissingSets, opt \in SUBSET GrassOptional,
     rx \in ResValues, ry \in ResValues, base \in Bases,
     prior \in BOOLEAN, h \in 0..MaxHistory, a \in ArgsSet :
    /\ store = MakeStore(missing, opt, rx, ry, base, prior, h)
    /\ store0 = store
    /\ args = a
    /\ pc = "Launched"
    /\ cmdline = Unbound
    /\ studyArea = EmptySection
    /\ grassMetadata = EmptySection
    /\ metadata = EmptySection
    /\ demResX = -1
    /\ demResY = -1
    /\ grassDbase = Unbound
    /\ grassConfig = <<>>
    /\ cfPath = Unbound
    /\ templatePath = Unbound
    /\ flowTableNameBase = Unbound
    /\ flowOutpath = Unbound
    /\ roads = Unbound
    /\ roofs = Unbound
    /\ impervious = Unbound
    /\ surfaceFlowtable = Unbound
    /\ subsurfaceFlowtable = Unbound
    /\ toolCalls = <<>>
    /\ result = NoResult
    /\ written = {}
    /\ exitCode = NoExit
    /\ exitMsg = ""

\* ------------------------------------------- external collaborators
\* rhessysworkflows.metadata.RHESSysMetadata and rhessysworkflows.rhessys
\* RHESSysPaths: a string-keyed store partitioned into sections, with an
\* append-only processing history.
GetCommandLine(a) ==
  "CreateFlowtable.py -p " \o ProjectDir
    \o (IF a.routeRoads THEN " --routeRoads" ELSE "")
    \o (IF a.routeRoofs THEN " --routeRoofs" ELSE "")
    \o (IF a.force THEN " --force" ELSE "")
ReadStudyAreaEntries(s) == s.studyArea
ReadGRASSEntries(s) == s.grass
ReadRHESSysEntries(s) == s.rhessys
WriteRHESSysEntry(s, key, value) ==
  [s EXCEPT !.rhessys =
     [k \in DOMAIN s.rhessys \cup {key} |->
        IF k = key THEN value ELSE s.rhessys[k]]]
AppendProcessingHistoryItem(s, item) ==
  [s EXCEPT !.history = Append(s.history, item)]
PathJoin(a, b) == a \o "/" \o b
RHESSysTemplates(projectDir, rhessysDir) ==
  PathJoin(PathJoin(projectDir, rhessysDir), "templates")
RHESSysFlow(projectDir, rhessysDir) ==
  PathJoin(PathJoin(projectDir, rhessysDir), "flow")

\* ----------------------------------------------------------- sys.exit
SysExit(msg) ==
  /\ pc' = "Aborted"
  /\ exitCode' = 1
  /\ exitMsg' = msg

MissingMsg(what) ==
  "Metadata in project directory " \o ProjectDir \o " does not contain " \o what

\* ------------------------------------------- lines 103-115: start of run
ParseAndRead ==
  /\ pc = "Launched"
  /\ cmdline' = GetCommandLine(args)
  /\ studyArea' = ReadStudyAreaEntries(store)
  /\ grassMetadata' = ReadGRASSEntries(store)
  /\ metadata' = ReadRHESSysEntries(store)
  /\ pc' = "Start"
  /\ UNCHANGED <<args, store, store0, resVars, pathVars, inputVars,
                 toolCalls, result, written, exitVars>>

\* ------------------------------------------ lines 117-154: key checks
\* The checks in source order; "when" is the flag that guards the check.
KeyChecks_NoTemplate ==
  << [section |-> "studyArea", key |-> "dem_res_x", when |-> "always",
      what |-> "a DEM x resolution"],
     [section |-> "studyArea", key |-> "dem_res_y", when |-> "always",
      what |-> "a DEM y resolution"],
     [section |-> "rhessys", key |-> "grass_dbase", when |-> "always",
      what |-> "a GRASS Dbase"],
     [section |-> "rhessys", key |-> "grass_location", when |-> "always",
      what |-> "a GRASS location"],
     [section |-> "rhessys", key |-> "grass_mapset", when |-> "always",
      what |-> "a GRASS mapset"],
     [section |-> "rhessys", key |-> "rhessys_dir", when |-> "always",
      what |-> "a RHESSys directory"],
     [section |-> "rhessys", key |-> "cf_bin", when |-> "always",
      what |-> "a createflowpaths executable"],
     [section |-> "rhessys", key |-> "worldfile", when |-> "always",
      what |-> "a worldfile"],
     [section |-> "grass", key |-> "dem_rast", when |-> "always",
      what |-> "a GRASS dataset with a DEM raster"],
     [section |-> "grass", key |-> "slope_rast", when |-> "always",
      what |-> "a GRASS dataset with a slope raster"],
     [section |-> "grass", key |-> "streams_rast", when |-> "always",
      what |-> "a GRASS dataset with a stream raster"],
     [section |-> "grass", key |-> "zero_rast", when |-> "always",
      what |-> "a GRASS dataset with a zero raster"],
     [section |-> "grass", key |-> "roads_rast", when |-> "routeRoads",
      what |-> "a GRASS dataset with a roads raster"],
     [section |-> "grass", key |-> "roof_connectivity_rast", when |-> "routeRoofs",
      what |-> "a GRASS dataset with a roofs raster"],
     [section |-> "grass", key |-> "impervious_rast", when |-> "routeRoofs",
      what |-> "a GRASS dataset with a impervious raster"] >>

KeyChecks ==
  << [section |-> "studyArea", key |-> "dem_res_x", when |-> "always",
      what |-> "a DEM x resolution"],
     [section |-> "studyArea", key |-> "dem_res_y", when |-> "always",
      what |-> "a DEM y resolution"],
     [section |-> "rhessys", key |-> "grass_dbase", when |-> "always",
      what |-> "a GRASS Dbase"],
     [section |-> "rhessys", key |-> "grass_location", when |-> "always",
      what |-> "a GRASS location"],
     [section |-> "rhessys", key |-> "grass_mapset", when |-> "always",
      what |-> "a GRASS mapset"],
     [section |-> "rhessys", key |-> "rhessys_dir", when |-> "always",
      what |-> "a RHESSys directory"],
     [section |-> "rhessys", key |-> "cf_bin", when |-> "always",
      what |-> "a createflowpaths executable"],
     [section |-> "rhessys", key |-> "worldfile", when |-> "always",
      what |-> "a worldfile"],
     [section |-> "rhessys", key |-> "template", when |-> "always",
      what |-> "a template"],
     [section |-> "grass", key |-> "dem_rast", when |-> "always",
      what |-> "a GRASS dataset with a DEM raster"],
     [section |-> "grass", key |-> "slope_rast", when |-> "always",
      what |-> "a GRASS dataset with a slope raster"],
     [section |-> "grass", key |-> "streams_rast", when |-> "always",
      what |-> "a GRASS dataset with a stream raster"],
     [section |-> "grass", key |-> "zero_rast", when |-> "always",
      what |-> "a GRASS dataset with a zero raster"],
     [section |-> "grass", key |-> "roads_rast", when |-> "routeRoads",
      what |-> "a GRASS dataset with a roads raster"],
     [section |-> "grass", key |-> "roof_connectivity_rast", when |-> "routeRoofs",
      what |-> "a GRASS dataset with a roofs raster"],
     [section |-> "grass", key |-> "impervious_rast", when |-> "routeRoofs",
      what |-> "a GRASS dataset with a impervious raster"] >>

CheckApplies(c, a) ==
  \/ c.when = "always"
  \/ c.when = "routeRoads" /\ a.routeRoads
  \/ c.when = "routeRoofs" /\ a.routeRoofs
SectionKeys(c, sa, gm, md) ==
  CASE c.section = "studyArea" -> DOMAIN sa
    [] c.section = "grass" -> DOMAIN gm
    [] c.section = "rhessys" -> DOMAIN md
CheckFails(c, a, sa, gm, md) ==
  CheckApplies(c, a) /\ c.key \notin SectionKeys(c, sa, gm, md)
\* Index of the first check that exits, 0 when every check passes.
FirstFailedCheck(a, sa, gm, md) ==
  IF \E i \in 1..Len(KeyChecks) : CheckFails(KeyChecks[i], a, sa, gm, md)
  THEN CHOOSE i \in 1..Len(KeyChecks) :
         /\ CheckFails(KeyChecks[i], a, sa, gm, md)
         /\ \A j \in 1..(i - 1) : ~CheckFails(KeyChecks[j], a, sa, gm, md)
  ELSE 0

CheckKeys ==
  /\ pc = "Start"
  /\ LET i == FirstFailedCheck(args, studyArea, grassMetadata, metadata) IN
       IF i # 0
       THEN SysExit(MissingMsg(KeyChecks[i].what))
       ELSE /\ pc' = "KeysChecked"
            /\ UNCHANGED exitVars
  /\ UNCHANGED <<args, store, store0, cmdline, checkVars, resVars, pathVars,
                 inputVars, toolCalls, result, written>>

\* -------------------------------- lines 156-162: resolution check
ResolutionMismatch(x, y) == x # y

\* Exits only when the resolutions differ and --force was not given.
MismatchExits_Never(x, y, a) == FALSE
MismatchExits(x, y, a) == ResolutionMismatch(x, y) /\ ~a.force

CheckResolution ==
  /\ pc = "KeysChecked"
  /\ LET fx == ParseFloat(studyArea["dem_res_x"])
         fy == ParseFloat(studyArea["dem_res_y"])
     IN
       IF ~fx.ok
       THEN /\ SysExit("ValueError: could not convert string to float")
            /\ UNCHANGED resVars
       ELSE IF ~fy.ok
       THEN /\ SysExit("ValueError: could not convert string to float")
            /\ demResX' = fx.val
            /\ UNCHANGED demResY
       ELSE /\ demResX' = fx.val
            /\ demResY' = fy.val
            /\ IF MismatchExits(fx.val, fy.val, args)
               THEN SysExit("Exiting.  Use --force option to override")
               ELSE /\ pc' = "PreconditionsChecked"
                    /\ UNCHANGED exitVars
  /\ UNCHANGED <<args, store, store0, cmdline, checkVars, pathVars,
                 inputVars, toolCalls, result, written>>

\* ---------------------------------- lines 164-175: path resolution
ResolvePaths ==
  /\ pc = "PreconditionsChecked"
  /\ grassDbase' = PathJoin(ProjectDir, metadata["grass_dbase"])
  /\ grassConfig' =
       <<grassDbase', metadata["grass_location"], metadata["grass_mapset"]>>
  /\ cfPath' = PathJoin(ProjectDir, metadata["cf_bin"])
  /\ templatePath' =
       PathJoin(RHESSysTemplates(ProjectDir, metadata["rhessys_dir"]),
                metadata["template"])
  /\ flowTableNameBase' = metadata["worldfile"]
  /\ flowOutpath' =
       PathJoin(RHESSysFlow(ProjectDir, metadata["rhessys_dir"]),
                metadata["worldfile"])
  /\ pc' = "PathsResolved"
  /\ UNCHANGED <<args, store, store0, cmdline, checkVars, resVars, inputVars,
                 toolCalls, result, written, exitVars>>

\* ------------------------- lines 177-191: conditional input selection
RoadsInput_IfPresent(a, gm) ==
  IF "roads_rast" \in DOMAIN gm THEN gm["roads_rast"] ELSE gm["zero_rast"]
RoadsInput(a, gm) ==
  IF a.routeRoads THEN gm["roads_rast"] ELSE gm["zero_rast"]

RoofsInput(a, gm) ==
  IF a.routeRoofs THEN gm["roof_connectivity_rast"] ELSE None

ImperviousInput_IfPresent(a, gm) ==
  IF "impervious_rast" \in DOMAIN gm THEN gm["impervious_rast"] ELSE None
ImperviousInput(a, gm) ==
  IF a.routeRoofs THEN gm["impervious_rast"] ELSE None

SurfaceFlowtableName(a, base) ==
  IF a.routeRoofs THEN base \o "_surface.flow" ELSE base \o ".flow"

SubsurfaceFlowtableName_Alias(a, base) ==
  IF a.routeRoofs THEN base \o "_surface.flow" ELSE base \o ".flow"
SubsurfaceFlowtableName(a, base) ==
  IF a.routeRoofs THEN base \o "_subsurface.flow" ELSE base \o ".flow"

SelectInputs ==
  /\ pc = "PathsResolved"
  /\ roads' = RoadsInput(args, grassMetadata)
  /\ roofs' = RoofsInput(args, grassMetadata)
  /\ impervious' = ImperviousInput(args, grassMetadata)
  /\ surfaceFlowtable' = SurfaceFlowtableName(args, flowTableNameBase)
  /\ subsurfaceFlowtable' = SubsurfaceFlowtableName(args, flowTableNameBase)
  /\ pc' = "InputsSelected"
  /\ UNCHANGED <<args, store, store0, cmdline, checkVars, resVars, pathVars,
                 toolCalls, result, written, exitVars>>

\* ------------------------------ lines 194-199: run createflowpaths
CellSizeArg_Y(x, y) == y
CellSizeArg(x, y) == x

\* read_command blocks until the subprocess ends and returns its output or
\* None.
InvokeTool ==
  /\ pc = "InputsSelected"
  /\ Len(toolCalls) < MaxInvocations
  /\ toolCalls' =
       Append(toolCalls,
              [cmd |-> cfPath, out |-> flowOutpath, template |-> templatePath,
               dem |-> grassMetadata["dem_rast"],
               slope |-> grassMetadata["slope_rast"],
               stream |-> grassMetadata["streams_rast"],
               road |-> roads, roof |-> roofs, impervious |-> impervious,
               cellsize |-> CellSizeArg(demResX, demResY)])
  /\ \E r \in {None, Payload} : result' = r
  /\ pc' = "ExternalToolInvoked"
  /\ UNCHANGED <<args, store, store0, cmdline, checkVars, resVars, pathVars,
                 inputVars, written, exitVars>>

\* ------------------------------------ lines 200-201: result check
CheckResult_Ignore ==
  /\ pc = "ExternalToolInvoked"
  /\ pc' = "ResultChecked"
  /\ UNCHANGED <<args, store, store0, cmdline, checkVars, resVars, pathVars,
                 inputVars, toolCalls, result, written, exitVars>>

CheckResult_Retry ==
  /\ pc = "ExternalToolInvoked"
  /\ pc' = IF result = None THEN "InputsSelected" ELSE "ResultChecked"
  /\ UNCHANGED <<args, store, store0, cmdline, checkVars, resVars, pathVars,
                 inputVars, toolCalls, result, written, exitVars>>

CheckResult_HistoryFirst ==
  /\ pc = "ExternalToolInvoked"
  /\ store' = AppendProcessingHistoryItem(store, cmdline)
  /\ IF result = None
     THEN SysExit("createflowpaths failed, returning " \o result)
     ELSE /\ pc' = "ResultChecked"
          /\ UNCHANGED exitVars
  /\ UNCHANGED <<args, store0, cmdline, checkVars, resVars, pathVars,
                 inputVars, toolCalls, result, written>>

CheckResult ==
  /\ pc = "ExternalToolInvoked"
  /\ IF result = None
     THEN SysExit("createflowpaths failed, returning " \o result)
     ELSE /\ pc' = "ResultChecked"
          /\ UNCHANGED exitVars
  /\ UNCHANGED <<args, store, store0, cmdline, checkVars, resVars, pathVars,
                 inputVars, toolCalls, result, written>>

\* ------------------------------ lines 202-206: postcondition commit
WriteSurface ==
  /\ pc = "ResultChecked"
  /\ store' = WriteRHESSysEntry(store, "surface_flowtable", surfaceFlowtable)
  /\ written' = written \cup {"surface_flowtable"}
  /\ pc' = "SurfaceWritten"
  /\ UNCHANGED <<args, store0, cmdline, checkVars, resVars, pathVars,
                 inputVars, toolCalls, result, exitVars>>

WriteSubsurface ==
  /\ pc = "SurfaceWritten"
  /\ store' = WriteRHESSysEntry(store, "subsurface_flowtable", subsurfaceFlowtable)
  /\ written' = written \cup {"subsurface_flowtable"}
  /\ pc' = "SubsurfaceWritten"
  /\ UNCHANGED <<args, store0, cmdline, checkVars, resVars, pathVars,
                 inputVars, toolCalls, result, exitVars>>

\* The module body ends after the history append: implicit exit status 0.
AppendHistory_Twice ==
  /\ pc = "SubsurfaceWritten"
  /\ store' = AppendProcessingHistoryItem(
                 AppendProcessingHistoryItem(store, cmdline), cmdline)
  /\ pc' = "PostconditionsWritten"
  /\ exitCode' = 0
  /\ UNCHANGED <<args, store0, cmdline, checkVars, resVars, pathVars,
                 inputVars, toolCalls, result, written, exitMsg>>

AppendHistory ==
  /\ pc = "SubsurfaceWritten"
  /\ store' = AppendProcessingHistoryItem(store, cmdline)
  /\ pc' = "PostconditionsWritten"
  /\ exitCode' = 0
  /\ UNCHANGED <<args, store0, cmdline, checkVars, resVars, pathVars,
                 inputVars, toolCalls, result, written, exitMsg>>

Next ==
  \/ ParseAndRead
  \/ CheckKeys
  \/ CheckResolution
  \/ ResolvePaths
  \/ SelectInputs
  \/ InvokeTool
  \/ CheckResult
  \/ WriteSurface
  \/ WriteSubsurface
  \/ AppendHistory

Spec == Init /\ [][Next]_vars

\* =================================================================
\* Properties
\* =================================================================
\* Facts about the launch of the run, read off the store as it was at launch.
AbsentUnconditional ==
  {k \in Range(StudyAreaRequired) : k \notin DOMAIN store0.studyArea}
    \cup {k \in Range(RHESSysRequired) : k \notin DOMAIN store0.rhessys}
    \cup {k \in Range(GrassRequired) : k \notin DOMAIN store0.grass}
UncondOK == AbsentUnconditional = {}
RoadsOK == args.routeRoads => "roads_rast" \in DOMAIN store0.grass
RoofsOK ==
  args.routeRoofs =>
    /\ "roof_connectivity_rast" \in DOMAIN store0.grass
    /\ "impervious_rast" \in DOMAIN store0.grass
ResX0 == ParseFloat(store0.studyArea["dem_res_x"])
ResY0 == ParseFloat(store0.studyArea["dem_res_y"])
ResNumeric == ResX0.ok /\ ResY0.ok
ResDiffer == ResNumeric /\ ResX0.val # ResY0.val
ResOK == ResNumeric /\ (ResX0.val = ResY0.val \/ args.force)

Rank(p) ==
  CASE p = "Launched" -> 0
    [] p = "Start" -> 1
    [] p = "KeysChecked" -> 2
    [] p = "PreconditionsChecked" -> 3
    [] p = "PathsResolved" -> 4
    [] p = "InputsSelected" -> 5
    [] p = "ExternalToolInvoked" -> 6
    [] p = "ResultChecked" -> 7
    [] p = "SurfaceWritten" -> 8
    [] p = "SubsurfaceWritten" -> 9
    [] p = "PostconditionsWritten" -> 10
    [] p = "Aborted" -> 10
NeverInvoked == toolCalls = <<>> /\ result = NoResult
AbortedBeforeInvocation == pc = "Aborted" /\ toolCalls = <<>>
Finished == pc \in {"Aborted", "PostconditionsWritten"}

\* C1 (as stated): in every reachable state, both postcondition entries have
\* been written by this run exactly when createflowpaths was invoked and
\* returned a non-null result.
C1_WrittenIffSucceededEverywhere ==
  (PostconditionKeys \subseteq written) <=> (toolCalls # <<>> /\ result = Payload)

\* C1 (amended): in every reachable state an entry has been written by this
\* run only if createflowpaths was invoked and returned non-null, and once the
\* run has finished both entries have been written exactly when it did; after
\* a null result neither entry is ever written.
C1_WrittenOnlyAfterSuccess ==
  /\ written # {} => (toolCalls # <<>> /\ result = Payload)
  /\ Finished =>
       ((PostconditionKeys \subseteq written) <=> (toolCalls # <<>> /\ result = Payload))
  /\ result = None => written = {}
C1_Witness ==
  /\ pc = "Aborted"
  /\ result = None
  /\ Len(toolCalls) = 1
  /\ written = {}

\* C2: when an unconditionally required key is absent from the store, for
\* every combination of flags the run never gets past the key checks except
\* by aborting, and createflowpaths is never invoked.
C2_MissingKeyAborts ==
  ~UncondOK =>
    /\ NeverInvoked
    /\ pc \in {"Launched", "Start", "Aborted"}
    /\ pc = "Aborted" => exitCode = 1
C2_Witness ==
  /\ "template" \in AbsentUnconditional
  /\ pc = "Aborted"
  /\ args.force
  /\ NeverInvoked

\* C3: with routeRoads and no roads_rast the run aborts before invoking the
\* tool; without routeRoads a missing roads_rast never causes an abort and
\* the road argument is zero_rast whether or not roads_rast exists; with
\* routeRoads the road argument is roads_rast.
C3_RoadsGate ==
  /\ (args.routeRoads /\ "roads_rast" \notin DOMAIN store0.grass) =>
       /\ NeverInvoked
       /\ pc \in {"Launched", "Start", "Aborted"}
  /\ ~args.routeRoads =>
       /\ exitMsg # MissingMsg("a GRASS dataset with a roads raster")
       /\ (UncondOK /\ RoofsOK /\ ResOK) => ~AbortedBeforeInvocation
  /\ \A i \in 1..Len(toolCalls) :
       toolCalls[i].road =
         IF args.routeRoads THEN store0.grass["roads_rast"]
         ELSE store0.grass["zero_rast"]
C3_Witness ==
  /\ ~args.routeRoads
  /\ "roads_rast" \in DOMAIN store0.grass
  /\ Len(toolCalls) = 1
  /\ toolCalls[1].road = "zero"

\* C4: the flow-table names are <base>_surface.flow and <base>_subsurface.flow
\* (distinct) under routeRoofs and both <base>.flow otherwise, whatever
\* routeRoads and force are.
C4_FlowtableNames ==
  surfaceFlowtable # Unbound =>
    LET base == store0.rhessys["worldfile"] IN
      IF args.routeRoofs
      THEN /\ surfaceFlowtable = base \o "_surface.flow"
           /\ subsurfaceFlowtable = base \o "_subsurface.flow"
           /\ surfaceFlowtable # subsurfaceFlowtable
      ELSE /\ surfaceFlowtable = base \o ".flow"
           /\ subsurfaceFlowtable = base \o ".flow"
C4_Witness ==
  /\ args.routeRoofs
  /\ args.routeRoads
  /\ surfaceFlowtable = "ws_surface.flow"
  /\ subsurfaceFlowtable = "ws_subsurface.flow"

\* C5: with every required key present and numerically different x and y
\* resolutions, the run aborts without invoking the tool unless force is
\* given, and with force it goes on to the invocation; every invocation gets
\* the x resolution as cellsize, never the y resolution when they differ.
C5_ResolutionCheck ==
  /\ (UncondOK /\ RoadsOK /\ RoofsOK /\ ResDiffer) =>
       /\ ~args.force =>
            /\ NeverInvoked
            /\ pc = "Aborted" \/ Rank(pc) <= Rank("KeysChecked")
       /\ args.force => ~AbortedBeforeInvocation
  /\ \A i \in 1..Len(toolCalls) :
       /\ toolCalls[i].cellsize = ResX0.val
       /\ ResDiffer => toolCalls[i].cellsize # ResY0.val
C5_Witness ==
  /\ args.force
  /\ UncondOK
  /\ store0.studyArea["dem_res_x"] = <<"1", "0", ".", "0">>
  /\ store0.studyArea["dem_res_y"] = <<"1", "0", ".", "5">>
  /\ Len(toolCalls) = 1
  /\ toolCalls[1].cellsize = 10 * Pow10(FracDigits)

\* C6: when a run whose invocation succeeded has finished, the store holds
\* surface_flowtable and subsurface_flowtable equal to the computed names and
\* the history is the launch history plus exactly one item, the command line
\* captured at the start of the run.
C6_PostconditionsCommitted ==
  (pc = "PostconditionsWritten") =>
    /\ result = Payload
    /\ PostconditionKeys \subseteq DOMAIN store.rhessys
    /\ store.rhessys["surface_flowtable"] = surfaceFlowtable
    /\ store.rhessys["subsurface_flowtable"] = subsurfaceFlowtable
    /\ surfaceFlowtable # Unbound
    /\ cmdline = GetCommandLine(args)
    /\ store.history = Append(store0.history, cmdline)
C6_Witness ==
  /\ pc = "PostconditionsWritten"
  /\ args.routeRoofs
  /\ store0.history # <<>>
  /\ "surface_flowtable" \in DOMAIN store0.rhessys
  /\ store.rhessys["subsurface_flowtable"] = "world_subsurface.flow"

\* C7: routeRoofs alone gates the roof inputs: with it, a missing
\* roof_connectivity_rast or impervious_rast aborts the run before the
\* invocation and the roof and impervious arguments are those keys'
\* values; without it neither key is required and both arguments are None
\* whether or not the keys exist.  routeRoads plays no part.
C7_RoofsGate ==
  /\ (args.routeRoofs /\ ~RoofsOK) =>
       /\ NeverInvoked
       /\ pc \in {"Launched", "Start", "Aborted"}
  /\ ~args.routeRoofs =>
       /\ exitMsg \notin {MissingMsg("a GRASS dataset with a roofs raster"),
                          MissingMsg("a GRASS dataset with a impervious raster")}
       /\ (UncondOK /\ RoadsOK /\ ResOK) => ~AbortedBeforeInvocation
  /\ \A i \in 1..Len(toolCalls) :
       IF args.routeRoofs
       THEN /\ toolCalls[i].roof = store0.grass["roof_connectivity_rast"]
            /\ toolCalls[i].impervious = store0.grass["impervious_rast"]
       ELSE /\ toolCalls[i].roof = None
            /\ toolCalls[i].impervious = None
C7_Witness ==
  /\ ~args.routeRoofs
  /\ args.routeRoads
  /\ GrassOptional \subseteq DOMAIN store0.grass
  /\ Len(toolCalls) = 1
  /\ toolCalls[1].impervious = None

\* C8: a run that meets a missing required key, a resolution mismatch
\* without force or a null tool result ends with exit status 1 and a message
\* and never with status 0; a run whose checks all pass and whose tool
\* result is non-null never aborts and ends with status 0.
PreconditionFailure ==
  \/ ~UncondOK
  \/ ~RoadsOK
  \/ ~RoofsOK
  \/ (ResDiffer /\ ~args.force)
C8_ExitStatus ==
  /\ pc = "Aborted" <=> exitCode = 1
  /\ pc = "PostconditionsWritten" <=> exitCode = 0
  /\ exitCode = 1 => exitMsg # ""
  /\ PreconditionFailure =>
       /\ exitCode # 0
       /\ Rank(pc) <= Rank("KeysChecked") \/ pc = "Aborted"
  /\ result = None =>
       /\ exitCode # 0
       /\ pc \in {"ExternalToolInvoked", "Aborted"}
  /\ (UncondOK /\ RoadsOK /\ RoofsOK /\ ResOK /\ result = Payload) =>
       /\ pc # "Aborted"
       /\ Finished => exitCode = 0
C8_Witness ==
  /\ UncondOK /\ RoadsOK /\ RoofsOK
  /\ ResDiffer
  /\ ~args.force
  /\ pc = "Aborted"
  /\ exitCode = 1
  /\ exitMsg = "Exiting.  Use --force option to override"

\* C9: every step moves forward in the linear order of the stage; the tool is
\* invoked at most once, only from the step after input selection and only
\* when every key check and the resolution check have passed; after a null
\* result the only step is to Aborted, with no further invocation.
C9_LinearNoRetry ==
  [][ /\ Rank(pc') > Rank(pc)
      /\ Len(toolCalls') <= 1
      /\ toolCalls' # toolCalls =>
           /\ pc = "InputsSelected"
           /\ toolCalls = <<>>
           /\ UncondOK /\ RoadsOK /\ RoofsOK /\ ResOK
      /\ result = None => (pc' = "Aborted" /\ toolCalls' = toolCalls)
    ]_vars
C9_Witness ==
  /\ pc = "Aborted"
  /\ result = None
  /\ Len(toolCalls) = 1
  /\ exitMsg = "createflowpaths failed, returning None"

\* C10: an aborted run leaves the whole store, history included, as it was
\* at launch; a successful run changes only surface_flowtable and
\* subsurface_flowtable and appends one history item.
C10_Frame ==
  /\ pc = "Aborted" => store = store0
  /\ pc = "PostconditionsWritten" =>
       /\ store.studyArea = store0.studyArea
       /\ store.grass = store0.grass
       /\ DOMAIN store.rhessys = DOMAIN store0.rhessys \cup PostconditionKeys
       /\ \A k \in DOMAIN store0.rhessys \ PostconditionKeys :
            store.rhessys[k] = store0.rhessys[k]
       /\ Len(store.history) = Len(store0.history) + 1
       /\ SubSeq(store.history, 1, Len(store0.history)) = store0.history
C10_Witness ==
  /\ pc = "Aborted"
  /\ result = None
  /\ PostconditionKeys \subseteq DOMAIN store0.rhessys
  /\ store0.history # <<>>
  /\ store = store0

====
